---- MODULE Spec2Model ----
(***************************************************************************)
(* A model of package rehttp (src/rehttp.go): the retrying Transport, its  *)
(* cancellation registry (t.mu, t.reqCh), the ShouldRetryFn / DelayFn      *)
(* combinators and the replay of the request body across attempts.         *)
(*                                                                         *)
(* Goroutines: one RoundTrip call per request of Reqs, and one             *)
(* CancelRequest call per member of Cancellers.  The wrapped               *)
(* CancelRoundTripper, the caller closing req.Cancel and the runtime timer *)
(* are the environment.                                                    *)
(*                                                                         *)
(* Specifications: Spec (one request, every input), SpecReg (two           *)
(* concurrent requests), SpecLive (one request under a fair scheduler),    *)
(* SpecDelay and SpecPolicy (the delay and policy functions alone) and     *)
(* SpecRand (the shared jitter generator under two retry loops).           *)
(***************************************************************************)
EXTENDS Integers, Sequences, FiniteSets, TLC

\* ------------------------------------------------------------------ bounds

\* Longest request body (bytes) the inputs are drawn from.
MaxLen == 2
\* Largest max argument given to ExponentialDelay in a Transport (ticks).
MaxDelay == 2
\* maxRetries of the single-predicate policies a Transport is built with.
MaxRetries == 1
\* Largest attempt index the pure delay function is evaluated at.
MaxIndex == 3
\* Largest |base|, |max| the pure delay function is evaluated with.
MaxArg == 3
\* Number of states of the jitter generator (its state is counted modulo this).
RandMod == 4

\* ------------------------------------------------------------ identities

Reqs == {"r1", "r2"}
Cancellers == {"c1", "c2"}
\* the zero value of a chan struct{} variable; a channel made by
\* RoundTrip(req) is named by req (one RoundTrip call per request).
NoCh == "nil"
Free == "free"

\* ------------------------------------------------------------- strings

\* A method is a sequence of one-letter strings.
Lower == <<"g", "e", "t", "p", "o", "s">>
Upper == <<"G", "E", "T", "P", "O", "S">>

UpperChar(c) ==
  IF \E i \in DOMAIN Lower : Lower[i] = c
  THEN Upper[CHOOSE i \in DOMAIN Lower : Lower[i] = c]
  ELSE c

ToUpper(s) == [i \in DOMAIN s |-> UpperChar(s[i])]

GET == <<"G", "E", "T">>

\* ------------------------------------------------------ attempts, results

NilResponse == [isNil |-> TRUE, StatusCode |-> 0, bodyRead |-> FALSE, bodyClosed |-> FALSE]

Response(code) == [isNil |-> FALSE, StatusCode |-> code, bodyRead |-> FALSE, bodyClosed |-> FALSE]

\* error values: "nil"; "temp": implements Temporary() and reports true;
\* "tempFalse": implements Temporary() and reports false; "plain": no
\* Temporary method; "canceled": errors.New("net/http: request canceled");
\* "readerr": the error io.Copy returned reading the original body.
ErrNil == "nil"
ErrCanceled == "canceled"
ErrRead == "readerr"

IsTemporaryer(e) == e \in {"temp", "tempFalse"}

Temporary(e) == e = "temp"

Attempt(index, method, res, err) ==
  [Index |-> index, Method |-> method, Response |-> res, Error |-> err]

\* -------------------------------------------------------- ShouldRetryFn

RetryTemporaryErr(maxRetries) == [kind |-> "temp", n |-> maxRetries]

RetryStatus500(maxRetries) == [kind |-> "s500", n |-> maxRetries]

RetryHTTPMethods(maxRetries, methods) ==
  [kind |-> "meth", n |-> maxRetries,
   methods |-> [i \in DOMAIN methods |-> ToUpper(methods[i])]]

\* RetryAll with the test of each function inverted (returns on the first true)
RetryAll_Any(retryFns) == [kind |-> "any", fns |-> retryFns]

\* RetryAll returning after its first function
RetryAll_First(retryFns) ==
  [kind |-> "all", fns |-> [i \in (DOMAIN retryFns) \cap {1} |-> retryFns[i]]]

RetryAll(retryFns) == [kind |-> "all", fns |-> retryFns]

RetryAny(retryFns) == [kind |-> "any", fns |-> retryFns]

\* RetryTemporaryErr without the call of Temporary()
EvalTemporaryErr_AnyTemporaryer(maxRetries, attempt) ==
  IF attempt.Index >= maxRetries THEN FALSE
  ELSE IsTemporaryer(attempt.Error)

EvalTemporaryErr(maxRetries, attempt) ==
  IF attempt.Index >= maxRetries THEN FALSE
  ELSE IF IsTemporaryer(attempt.Error) THEN Temporary(attempt.Error)
  ELSE FALSE

\* RetryStatus500 with the upper end of the range included
EvalStatus500_Closed(maxRetries, attempt) ==
  IF attempt.Index >= maxRetries THEN FALSE
  ELSE /\ ~attempt.Response.isNil
       /\ attempt.Response.StatusCode >= 500
       /\ attempt.Response.StatusCode <= 600

\* RetryStatus500 still retrying at Index = maxRetries
EvalStatus500_OffByOne(maxRetries, attempt) ==
  IF attempt.Index > maxRetries THEN FALSE
  ELSE /\ ~attempt.Response.isNil
       /\ attempt.Response.StatusCode >= 500
       /\ attempt.Response.StatusCode < 600

EvalStatus500(maxRetries, attempt) ==
  IF attempt.Index >= maxRetries THEN FALSE
  ELSE /\ ~attempt.Response.isNil
       /\ attempt.Response.StatusCode >= 500
       /\ attempt.Response.StatusCode < 600

\* RetryHTTPMethods without strings.ToUpper on the request's method
EvalHTTPMethods_Exact(maxRetries, methods, attempt) ==
  IF attempt.Index >= maxRetries THEN FALSE
  ELSE \E i \in DOMAIN methods : attempt.Method = methods[i]

EvalHTTPMethods(maxRetries, methods, attempt) ==
  IF attempt.Index >= maxRetries THEN FALSE
  ELSE LET curMeth == ToUpper(attempt.Method)
       IN  \E i \in DOMAIN methods : curMeth = methods[i]

RECURSIVE ShouldRetry(_, _)
ShouldRetry(fn, attempt) ==
  CASE fn.kind = "temp" -> EvalTemporaryErr(fn.n, attempt)
    [] fn.kind = "s500" -> EvalStatus500(fn.n, attempt)
    [] fn.kind = "meth" -> EvalHTTPMethods(fn.n, fn.methods, attempt)
    [] fn.kind = "all"  -> \A i \in DOMAIN fn.fns : ShouldRetry(fn.fns[i], attempt)
    [] fn.kind = "any"  -> \E i \in DOMAIN fn.fns : ShouldRetry(fn.fns[i], attempt)

\* ---------------------------------------------------------------- DelayFn

RECURSIVE Pow2(_)
Pow2(i) == IF i <= 0 THEN 1 ELSE 2 * Pow2(i - 1)

Min(a, b) == IF a <= b THEN a ELSE b

\* The outcome of a call that may panic: a value, or a panic.
Value(d) == [panic |-> FALSE, d |-> d]
Panic == [panic |-> TRUE, d |-> 0]

\* (*rand.Rand).Int63n: panics when n <= 0, else any value of [0, n).
Int63n(n) == IF n <= 0 THEN {Panic} ELSE {Value(d) : d \in 0 .. (n - 1)}

ConstDelay(delay) == [kind |-> "const", delay |-> delay, base |-> 0, max |-> 0]

ExponentialDelay(base, max) == [kind |-> "exp", delay |-> 0, base |-> base, max |-> max]

\* exp, top and the minimum are float64 in the code; on the small
\* integers of the model the products and the int64 conversion are exact.
EvalExponentialDelay(base, max, attempt) ==
  LET exp == Pow2(attempt.Index)
      top == base * exp
  IN  Int63n(Min(max, top))

\* The set of outcomes delay(attempt) can have.
Delay(fn, attempt) ==
  IF fn.kind = "const" THEN {Value(fn.delay)}
  ELSE EvalExponentialDelay(fn.base, fn.max, attempt)

\* toRetryFn calling delay before it looks at shouldRetry's answer
toRetryFn_Eager(shouldRetry, delay, attempt) ==
  LET retry == ShouldRetry(shouldRetry, attempt)
  IN  {[retry |-> retry, out |-> IF retry THEN o ELSE Value(0), delayCalls |-> 1] :
         o \in Delay(delay, attempt)}

\* toRetryFn(shouldRetry, delay)(attempt): the set of outcomes, with the
\* number of times delay was invoked.
toRetryFn(shouldRetry, delay, attempt) ==
  LET retry == ShouldRetry(shouldRetry, attempt)
  IN  IF ~retry
      THEN {[retry |-> FALSE, out |-> Value(0), delayCalls |-> 0]}
      ELSE {[retry |-> TRUE, out |-> o, delayCalls |-> 1] : o \in Delay(delay, attempt)}

\* --------------------------------------------------------------- inputs

\* RetryAll(RetryStatus500(3), RetryHTTPMethods(3, "GET"))
ScenarioPolicy ==
  RetryAll(<<RetryStatus500(3), RetryHTTPMethods(3, <<GET>>)>>)

AnyPolicy == RetryAny(<<RetryTemporaryErr(MaxRetries), RetryStatus500(MaxRetries)>>)

Policies == {ScenarioPolicy, AnyPolicy}

DelayFns == {ConstDelay(1), ExponentialDelay(1, MaxDelay)}

Methods == {GET, <<"p", "o", "s", "t">>}

\* method lists given to RetryHTTPMethods, in upper, lower and mixed case
MethodLists ==
  {<<>>, <<GET>>, <<<<"g", "e", "t">>>>, <<<<"P", "o", "s", "t">>, <<"G", "e", "t">>>>}

\* request methods in upper, lower and mixed case
AnyCaseMethods == {GET, <<"g", "e", "t">>, <<"G", "e", "T">>, <<"p", "o", "s", "t">>}

Retries == 0 .. MaxRetries + 1

\* the policies evaluated alone, each with the method list or the
\* functions it was given
LeafPolicies ==
  {[fn |-> RetryTemporaryErr(n), methods |-> <<>>, fns |-> <<>>] : n \in Retries}
  \cup {[fn |-> RetryStatus500(n), methods |-> <<>>, fns |-> <<>>] : n \in Retries}
  \cup {[fn |-> RetryHTTPMethods(n, ms), methods |-> ms, fns |-> <<>>] :
          n \in Retries, ms \in MethodLists}

PairedFirst == {RetryTemporaryErr(MaxRetries + 1), RetryStatus500(MaxRetries + 1)}

PairedSecond == {RetryStatus500(MaxRetries), RetryHTTPMethods(MaxRetries + 1, <<GET>>)}

ComposedPolicies ==
  {[fn |-> RetryAll(<<>>), methods |-> <<>>, fns |-> <<>>],
   [fn |-> RetryAny(<<>>), methods |-> <<>>, fns |-> <<>>]}
  \cup {[fn |-> RetryAll(<<f, g>>), methods |-> <<>>, fns |-> <<f, g>>] :
          f \in PairedFirst, g \in PairedSecond}
  \cup {[fn |-> RetryAny(<<f, g>>), methods |-> <<>>, fns |-> <<f, g>>] :
          f \in PairedFirst, g \in PairedSecond}

Attempts ==
  {Attempt(i, m, rs, e) :
     i \in 0 .. MaxIndex, m \in AnyCaseMethods,
     rs \in {NilResponse, Response(200), Response(499), Response(500),
             Response(599), Response(600)},
     e \in {ErrNil, "temp", "tempFalse", "plain"}}

PolicyArgs ==
  {[fn |-> p.fn, methods |-> p.methods, fns |-> p.fns, delay |-> d, attempt |-> a] :
     p \in LeafPolicies \cup ComposedPolicies,
     d \in DelayFns \cup {ExponentialDelay(0, MaxDelay)},
     a \in Attempts}

NilBody == [isNil |-> TRUE, bytes |-> <<>>]

Body(bytes) == [isNil |-> FALSE, bytes |-> bytes]

\* request bodies: none, or the first n bytes of 1, 2, ... for n <= MaxLen
Bodies == {NilBody} \cup {Body([i \in 1 .. n |-> i]) : n \in 0 .. MaxLen}

\* what the wrapped RoundTripper can return for one attempt
Outcomes ==
  {[res |-> Response(200), err |-> ErrNil],
   [res |-> Response(503), err |-> ErrNil],
   [res |-> NilResponse, err |-> "temp"],
   [res |-> NilResponse, err |-> "plain"]}

\* ------------------------------------------------------------------ state

VARIABLES
  PreventRetryWithBody,  \* Transport.PreventRetryWithBody
  retry,                 \* Transport.retry: [shouldRetry, delay]
  mu,                    \* Transport.mu: Free, or the goroutine holding it
  reqCh,                 \* Transport.reqCh: [isNil, m], m a function req -> channel
  closes,                \* per channel, the number of close(ch) executed
  removed,               \* per request, who deleted its registry entry
  issued,                \* the requests RoundTrip is called with
  hasCancel,             \* the requests whose req.Cancel is not nil
  method,                \* req.Method
  origBody,              \* the body the caller set on req
  body,                  \* req.Body and the replay reader br, per request
  pc,                    \* where each RoundTrip call is
  attempt,               \* RoundTrip's attempt
  preventRetry,          \* RoundTrip's preventRetry
  res,                   \* RoundTrip's res
  err,                   \* RoundTrip's err
  ret,                   \* what RoundTrip returned
  calls,                 \* per request: invocations of the executor, of
                         \* shouldRetry and of delay, and executor returns
  seen,                  \* the bytes the executor could read on its last call
  execOut,               \* what the executor returned from its last call
  timer,                 \* time.After(delay): [delay, rem]
  reqCancel,             \* whether the caller closed req.Cancel
  sel,                   \* how the last select of the call was resolved
  cpc,                   \* where each CancelRequest call is
  creq,                  \* CancelRequest's req
  cch,                   \* CancelRequest's ch
  dArgs,                 \* arguments of the pure delay evaluation
  dOut,                  \* its outcome
  pArgs,                 \* arguments of the pure policy evaluation
  pOut,                  \* its outcome
  PRNG,                  \* the state of the package's *rand.Rand
  draw,                  \* per goroutine, where its PRNG.Int63n call is
  passed,                \* per request, the Attempts passed to t.retry so far
  closedInFlight         \* per request, the executor invocation during which
                         \* close(ch) was executed (0 if none was)

tvars == <<PreventRetryWithBody, retry, mu, reqCh, closes, removed, issued, hasCancel>>
rvars == <<method, origBody, body, pc, attempt, preventRetry, res, err, ret,
           calls, seen, execOut, timer, reqCancel, sel>>
cvars == <<cpc, creq, cch>>
dvars == <<dArgs, dOut, pArgs, pOut, PRNG, draw>>
gvars == <<passed, closedInFlight>>
vars == <<tvars, rvars, cvars, dvars, gvars>>

NoRet == [returned |-> FALSE, panicked |-> FALSE, res |-> NilResponse, err |-> ErrNil]

\* the response is disposed of before it is returned
Ret_Drained(rs, e) ==
  [returned |-> TRUE, panicked |-> FALSE,
   res |-> IF rs.isNil THEN rs ELSE [rs EXCEPT !.bodyRead = TRUE, !.bodyClosed = TRUE],
   err |-> e]

Ret(rs, e) == [returned |-> TRUE, panicked |-> FALSE, res |-> rs, err |-> e]

NoSel == [case |-> "none", parked |-> FALSE, at |-> 0]

EmptyMap == [isNil |-> TRUE, m |-> <<>>]

InitBody(b) ==
  [kind |-> IF b.isNil THEN "nil" ELSE "orig",
   origOff |-> 0, origClosed |-> FALSE,
   hasBr |-> FALSE, buf |-> <<>>, brOff |-> 0]

NoArgs == [base |-> 1, max |-> 1, index |-> 0]

InitTransport(policies, delays, prevents) ==
  /\ PreventRetryWithBody \in prevents
  /\ retry \in [shouldRetry : policies, delay : delays]
  /\ mu = Free
  /\ reqCh = EmptyMap
  /\ closes = [r \in Reqs |-> 0]
  /\ removed = [r \in Reqs |-> "nobody"]

\* The requests `which` are issued, request r with a body of bodiesOf[r].
InitRequests(which, cancelable, methods, bodiesOf) ==
  /\ issued = which
  /\ hasCancel = cancelable
  /\ method \in [Reqs -> methods]
  /\ origBody \in [Reqs -> Bodies]
  /\ \A r \in Reqs : origBody[r] \in bodiesOf[r]
  /\ \A r \in Reqs \ which : method[r] = GET
  /\ body = [r \in Reqs |-> InitBody(origBody[r])]
  /\ pc = [r \in Reqs |-> "idle"]
  /\ attempt = [r \in Reqs |-> 0]
  /\ preventRetry = [r \in Reqs |-> FALSE]
  /\ res = [r \in Reqs |-> NilResponse]
  /\ err = [r \in Reqs |-> ErrNil]
  /\ ret = [r \in Reqs |-> NoRet]
  /\ calls = [r \in Reqs |-> [exec |-> 0, execRet |-> 0, policy |-> 0, delay |-> 0]]
  /\ seen = [r \in Reqs |-> <<>>]
  /\ execOut = [r \in Reqs |-> [res |-> NilResponse, err |-> ErrNil]]
  /\ timer = [r \in Reqs |-> [delay |-> 0, rem |-> 0]]
  /\ reqCancel = [r \in Reqs |-> FALSE]
  /\ sel = [r \in Reqs |-> NoSel]
  /\ passed = [r \in Reqs |-> <<>>]
  /\ closedInFlight = [r \in Reqs |-> 0]

InitCancellers ==
  /\ cpc = [c \in Cancellers |-> "idle"]
  /\ creq = [c \in Cancellers |-> "r1"]
  /\ cch = [c \in Cancellers |-> NoCh]

NoPolicyArgs ==
  [fn |-> RetryStatus500(0), methods |-> <<>>, fns |-> <<>>, delay |-> ConstDelay(0),
   attempt |-> Attempt(0, GET, NilResponse, ErrNil)]

InitPolicyIdle ==
  /\ pArgs = NoPolicyArgs
  /\ pOut = {}

InitRandIdle ==
  /\ PRNG = [state |-> 0]
  /\ draw = [r \in Reqs |-> [pc |-> "idle", x |-> 0, n |-> 0]]

InitDelayIdle ==
  /\ dArgs = NoArgs
  /\ dOut = {}
  /\ InitPolicyIdle
  /\ InitRandIdle

\* One request, every configuration and input.
Init ==
  /\ InitTransport(Policies, DelayFns, BOOLEAN)
  /\ InitRequests({"r1"}, {"r1"}, Methods,
                  [r \in Reqs |-> IF r = "r1" THEN Bodies ELSE {NilBody}])
  /\ InitCancellers
  /\ InitDelayIdle

\* ----------------------------------------------------- registry (t.reqCh)

\* t.reqCh[req] = ch, allocating the map when it is nil
MapSet(map, r, ch) ==
  [isNil |-> FALSE,
   m |-> [x \in (DOMAIN map.m) \cup {r} |-> IF x = r THEN ch ELSE map.m[x]]]

\* delete(t.reqCh, req): a no-op on a nil map and on an absent key
MapDelete(map, r) ==
  [isNil |-> map.isNil, m |-> [x \in (DOMAIN map.m) \ {r} |-> map.m[x]]]

\* t.reqCh[req]: the zero value (nil channel) when absent
MapGet(map, r) == IF r \in DOMAIN map.m THEN map.m[r] ELSE NoCh

\* a critical section that ends without t.mu.Unlock()
Unlock_Forgotten(holder) == holder

\* t.mu.Unlock() by the goroutine holding t.mu
Unlock(holder) == Free

\* -------------------------------------------------------------- RoundTrip

\* preventRetry that never holds
PreventRetry_Never(b, flag) == FALSE

\* preventRetry := req.Body != nil && t.PreventRetryWithBody
PreventRetry(b, flag) == ~b.isNil /\ flag

\* what a reader of req.Body would read from now on
Readable(b, orig) ==
  CASE b.kind = "nil"  -> <<>>
    [] b.kind = "orig" -> SubSeq(orig.bytes, b.origOff + 1, Len(orig.bytes))
    [] b.kind = "br"   -> SubSeq(b.buf, b.brOff + 1, Len(b.buf))

\* io.Copy(&buf, req.Body) succeeded; req.Body.Close();
\* br = bytes.NewReader(buf.Bytes()); req.Body = ioutil.NopCloser(br)
Buffered(b, orig) ==
  [kind |-> "br", origOff |-> Len(orig.bytes), origClosed |-> TRUE,
   hasBr |-> TRUE, buf |-> SubSeq(orig.bytes, b.origOff + 1, Len(orig.bytes)),
   brOff |-> 0]

\* the failure path without req.Body.Close()
BufferFailed_NoClose(b, n) == [b EXCEPT !.origOff = n]

\* io.Copy failed after reading n bytes; req.Body.Close()
BufferFailed(b, n) == [b EXCEPT !.origOff = n, !.origClosed = TRUE]

\* a Seek that leaves the offset where the last attempt left it
Seek0_Keep(off) == off

\* br.Seek(0, 0): the new offset
Seek0(off) == 0

\* if br != nil { br.Seek(0, 0); req.Body = ioutil.NopCloser(br) }
Rewind(b) == IF b.hasBr THEN [b EXCEPT !.brOff = Seek0(b.brOff), !.kind = "br"] ELSE b

\* if res != nil { io.Copy(ioutil.Discard, res.Body); res.Body.Close() }
DrainClose(rs) ==
  IF rs.isNil THEN rs ELSE [rs EXCEPT !.bodyRead = TRUE, !.bodyClosed = TRUE]

\* The executor consumes and closes the body it is given, reading up to
\* offset n of it.
Consumed(b, n) ==
  CASE b.kind = "nil"  -> b
    [] b.kind = "orig" -> [b EXCEPT !.origOff = n, !.origClosed = TRUE]
    [] b.kind = "br"   -> [b EXCEPT !.brOff = n]

BodyLen(b, orig) == IF b.kind = "br" THEN Len(b.buf) ELSE Len(orig.bytes)

BodyOff(b) == IF b.kind = "br" THEN b.brOff ELSE b.origOff

\* a timer that is ready before its delay has elapsed
TimerReady_Always(t) == TRUE

\* the case <-time.After(delay) can be received from
TimerReady(t) == t.rem = 0

\* the cases of the select that can proceed
ReadyCases(r) ==
  (IF TimerReady(timer[r]) THEN {"timer"} ELSE {})
    \cup (IF r \in hasCancel /\ reqCancel[r] THEN {"reqCancel"} ELSE {})
    \cup (IF closes[r] > 0 THEN {"ch"} ELSE {})

\* a select whose cancellation cases go on to the next attempt
Proceed_CancelRetries(r, c, wasParked) ==
  /\ sel' = [sel EXCEPT ![r] = [case |-> c, parked |-> wasParked, at |-> calls[r].exec]]
  /\ attempt' = [attempt EXCEPT ![r] = @ + 1]
  /\ pc' = [pc EXCEPT ![r] = "send"]
  /\ ret' = ret

\* a select whose timer case adds two to attempt
Proceed_SkipIndex(r, c, wasParked) ==
  /\ sel' = [sel EXCEPT ![r] = [case |-> c, parked |-> wasParked, at |-> calls[r].exec]]
  /\ IF c = "timer"
     THEN /\ attempt' = [attempt EXCEPT ![r] = @ + 2]
          /\ pc' = [pc EXCEPT ![r] = "send"]
          /\ ret' = ret
     ELSE /\ attempt' = attempt
          /\ pc' = [pc EXCEPT ![r] = "defer"]
          /\ ret' = [ret EXCEPT ![r] = Ret(NilResponse, ErrCanceled)]

\* The select proceeds with case c: attempt++ and the next iteration, or
\* return nil, errors.New("net/http: request canceled").
Proceed(r, c, wasParked) ==
  /\ sel' = [sel EXCEPT ![r] = [case |-> c, parked |-> wasParked, at |-> calls[r].exec]]
  /\ IF c = "timer"
     THEN /\ attempt' = [attempt EXCEPT ![r] = @ + 1]
          /\ pc' = [pc EXCEPT ![r] = "send"]
          /\ ret' = ret
     ELSE /\ attempt' = attempt
          /\ pc' = [pc EXCEPT ![r] = "defer"]
          /\ ret' = [ret EXCEPT ![r] = Ret(NilResponse, ErrCanceled)]

\* lines 266-270: attempt, preventRetry, ch := make(chan struct{}), t.mu.Lock()
RT_Call(r) ==
  /\ r \in issued
  /\ pc[r] = "idle"
  /\ mu = Free
  /\ mu' = r
  /\ attempt' = [attempt EXCEPT ![r] = 0]
  /\ preventRetry' = [preventRetry EXCEPT ![r] = PreventRetry(origBody[r], PreventRetryWithBody)]
  /\ pc' = [pc EXCEPT ![r] = "register"]
  /\ UNCHANGED <<PreventRetryWithBody, retry, reqCh, closes, removed, issued, hasCancel>>
  /\ UNCHANGED <<method, origBody, body, res, err, ret, calls, seen, execOut, timer, reqCancel, sel>>
  /\ UNCHANGED <<cvars, dvars, gvars>>

\* lines 271-296: t.reqCh[req] = ch; t.mu.Unlock(); then buffer the body
\* if needed: io.Copy fails after n bytes (return nil, err) or succeeds
RT_Register(r) ==
  /\ pc[r] = "register"
  /\ mu = r
  /\ reqCh' = MapSet(reqCh, r, r)
  /\ mu' = Unlock(r)
  /\ IF ~origBody[r].isNil /\ ~preventRetry[r]
     THEN \E ok \in BOOLEAN, n \in 0 .. Len(origBody[r].bytes) :
            IF ok
            THEN /\ n = 0
                 /\ body' = [body EXCEPT ![r] = Buffered(@, origBody[r])]
                 /\ pc' = [pc EXCEPT ![r] = "send"]
                 /\ ret' = ret
            ELSE /\ body' = [body EXCEPT ![r] = BufferFailed(@, n)]
                 /\ pc' = [pc EXCEPT ![r] = "defer"]
                 /\ ret' = [ret EXCEPT ![r] = Ret(NilResponse, ErrRead)]
     ELSE /\ pc' = [pc EXCEPT ![r] = "send"]
          /\ UNCHANGED <<body, ret>>
  /\ UNCHANGED <<PreventRetryWithBody, retry, closes, removed, issued, hasCancel>>
  /\ UNCHANGED <<method, origBody, attempt, preventRetry, res, err,
                 calls, seen, execOut, timer, reqCancel, sel>>
  /\ UNCHANGED <<cvars, dvars, gvars>>

\* line 299: t.CancelRoundTripper.RoundTrip(req) is invoked
RT_Send(r) ==
  /\ pc[r] = "send"
  /\ calls' = [calls EXCEPT ![r].exec = @ + 1]
  /\ seen' = [seen EXCEPT ![r] = Readable(body[r], origBody[r])]
  /\ pc' = [pc EXCEPT ![r] = "inflight"]
  /\ UNCHANGED tvars
  /\ UNCHANGED <<method, origBody, body, attempt, preventRetry, res, err, ret,
                 execOut, timer, reqCancel, sel>>
  /\ UNCHANGED <<cvars, dvars, gvars>>

\* lines 299-329: the wrapped RoundTripper returns out.res, out.err, having
\* consumed the body up to offset n and closed it; RoundTrip returns them
\* when retries are prevented or the policy says no; else it rewinds the
\* body, disposes of the response and arms time.After(delay)
Exec_Return(r) ==
  /\ pc[r] = "inflight"
  /\ \E out \in Outcomes, n \in 0 .. MaxLen :
       /\ n >= BodyOff(body[r])
       /\ n <= BodyLen(body[r], origBody[r])
       /\ err' = [err EXCEPT ![r] = out.err]
       /\ execOut' = [execOut EXCEPT ![r] = out]
       /\ IF preventRetry[r]
          THEN /\ ret' = [ret EXCEPT ![r] = Ret(out.res, out.err)]
               /\ res' = [res EXCEPT ![r] = out.res]
               /\ body' = [body EXCEPT ![r] = Consumed(@, n)]
               /\ calls' = [calls EXCEPT ![r].execRet = @ + 1]
               /\ pc' = [pc EXCEPT ![r] = "defer"]
               /\ timer' = timer
               /\ passed' = passed
          ELSE \E o \in toRetryFn(retry.shouldRetry, retry.delay,
                                  Attempt(attempt[r], method[r], out.res, out.err)) :
                 /\ calls' = [calls EXCEPT ![r].execRet = @ + 1,
                                           ![r].policy = @ + 1,
                                           ![r].delay = @ + o.delayCalls]
                 /\ passed' = [passed EXCEPT ![r] =
                                 Append(@, Attempt(attempt[r], method[r], out.res, out.err))]
                 /\ IF ~o.retry
                    THEN /\ ret' = [ret EXCEPT ![r] = Ret(out.res, out.err)]
                         /\ res' = [res EXCEPT ![r] = out.res]
                         /\ body' = [body EXCEPT ![r] = Consumed(@, n)]
                         /\ pc' = [pc EXCEPT ![r] = "defer"]
                         /\ timer' = timer
                    ELSE IF o.out.panic
                    THEN /\ ret' = [ret EXCEPT ![r] = [NoRet EXCEPT !.panicked = TRUE]]
                         /\ res' = [res EXCEPT ![r] = out.res]
                         /\ body' = [body EXCEPT ![r] = Consumed(@, n)]
                         /\ pc' = [pc EXCEPT ![r] = "defer"]
                         /\ timer' = timer
                    ELSE /\ body' = [body EXCEPT ![r] = Rewind(Consumed(@, n))]
                         /\ res' = [res EXCEPT ![r] = DrainClose(out.res)]
                         /\ timer' = [timer EXCEPT ![r] = [delay |-> o.out.d, rem |-> o.out.d]]
                         /\ pc' = [pc EXCEPT ![r] = "select"]
                         /\ ret' = ret
  /\ UNCHANGED tvars
  /\ UNCHANGED <<method, origBody, attempt, preventRetry, seen, reqCancel, sel>>
  /\ UNCHANGED <<cvars, dvars, closedInFlight>>

\* lines 330-339: the select finds a case ready, or blocks
RT_Select(r) ==
  /\ pc[r] = "select"
  /\ IF ReadyCases(r) = {}
     THEN /\ pc' = [pc EXCEPT ![r] = "parked"]
          /\ UNCHANGED <<attempt, ret, sel>>
     ELSE \E c \in ReadyCases(r) : Proceed(r, c, FALSE)
  /\ UNCHANGED tvars
  /\ UNCHANGED <<method, origBody, body, preventRetry, res, err, calls, seen,
                 execOut, timer, reqCancel>>
  /\ UNCHANGED <<cvars, dvars, gvars>>

\* time passes for the timer of line 331; a goroutine blocked in the select
\* is resumed with the timer's case when it fires
Tick(r) ==
  /\ pc[r] \in {"select", "parked"}
  /\ timer[r].rem > 0
  /\ timer' = [timer EXCEPT ![r].rem = @ - 1]
  /\ IF pc[r] = "parked" /\ TimerReady(timer'[r])
     THEN Proceed(r, "timer", TRUE)
     ELSE UNCHANGED <<pc, attempt, ret, sel>>
  /\ UNCHANGED tvars
  /\ UNCHANGED <<method, origBody, body, preventRetry, res, err, calls, seen, execOut, reqCancel>>
  /\ UNCHANGED <<cvars, dvars, gvars>>

\* the caller closes req.Cancel (line 333 receives from it)
ReqCancel(r) ==
  /\ r \in hasCancel
  /\ pc[r] \notin {"idle", "done"}
  /\ ~reqCancel[r]
  /\ reqCancel' = [reqCancel EXCEPT ![r] = TRUE]
  /\ IF pc[r] = "parked"
     THEN Proceed(r, "reqCancel", TRUE)
     ELSE UNCHANGED <<pc, attempt, ret, sel>>
  /\ UNCHANGED tvars
  /\ UNCHANGED <<method, origBody, body, preventRetry, res, err, calls, seen, execOut, timer>>
  /\ UNCHANGED <<cvars, dvars, gvars>>

\* lines 277-278: the deferred function runs, t.mu.Lock()
RT_DeferLock(r) ==
  /\ pc[r] = "defer"
  /\ mu = Free
  /\ mu' = r
  /\ pc' = [pc EXCEPT ![r] = "unregister"]
  /\ UNCHANGED <<PreventRetryWithBody, retry, reqCh, closes, removed, issued, hasCancel>>
  /\ UNCHANGED <<method, origBody, body, attempt, preventRetry, res, err, ret,
                 calls, seen, execOut, timer, reqCancel, sel>>
  /\ UNCHANGED <<cvars, dvars, gvars>>

\* a deferred function that leaves the entry in place
Unregister_Skip(map, r) == map

\* what the deferred function does to the registry: delete(t.reqCh, req)
Unregister(map, r) == MapDelete(map, r)

\* lines 279-280: delete(t.reqCh, req); t.mu.Unlock(); RoundTrip has
\* returned, and its local variables are gone
RT_Unregister(r) ==
  /\ pc[r] = "unregister"
  /\ mu = r
  /\ reqCh' = Unregister(reqCh, r)
  /\ removed' = IF r \in DOMAIN reqCh.m /\ r \notin DOMAIN reqCh'.m
                THEN [removed EXCEPT ![r] = "RoundTrip"] ELSE removed
  /\ mu' = Unlock(r)
  /\ pc' = [pc EXCEPT ![r] = "done"]
  /\ attempt' = [attempt EXCEPT ![r] = 0]
  /\ preventRetry' = [preventRetry EXCEPT ![r] = FALSE]
  /\ res' = [res EXCEPT ![r] = NilResponse]
  /\ err' = [err EXCEPT ![r] = ErrNil]
  /\ timer' = [timer EXCEPT ![r] = [delay |-> 0, rem |-> 0]]
  /\ UNCHANGED <<PreventRetryWithBody, retry, closes, issued, hasCancel>>
  /\ UNCHANGED <<method, origBody, body, ret, calls, seen, execOut, reqCancel, sel>>
  /\ UNCHANGED <<cvars, dvars, gvars>>

\* ---------------------------------------------------------- CancelRequest

\* lines 346-347: var ch chan struct{}; t.mu.Lock()
CR_Call(c, r) ==
  /\ cpc[c] = "idle"
  /\ mu = Free
  /\ mu' = c
  /\ cpc' = [cpc EXCEPT ![c] = "locked"]
  /\ creq' = [creq EXCEPT ![c] = r]
  /\ cch' = [cch EXCEPT ![c] = NoCh]
  /\ UNCHANGED <<PreventRetryWithBody, retry, reqCh, closes, removed, issued, hasCancel>>
  /\ UNCHANGED <<rvars, dvars, gvars>>

\* the channel CancelRequest takes out of the registry
CancelLookup(map, r) == IF ~map.isNil THEN MapGet(map, r) ELSE NoCh

\* a CancelRequest that does not delete the entry
CancelRemove_Keep(map, r) == map

\* the registry CancelRequest leaves
CancelRemove(map, r) == IF ~map.isNil THEN MapDelete(map, r) ELSE map

\* lines 348-352: ch = t.reqCh[req]; delete(t.reqCh, req); t.mu.Unlock()
CR_Lookup(c) ==
  /\ cpc[c] = "locked"
  /\ mu = c
  /\ cch' = [cch EXCEPT ![c] = CancelLookup(reqCh, creq[c])]
  /\ reqCh' = CancelRemove(reqCh, creq[c])
  /\ removed' = IF creq[c] \in DOMAIN reqCh.m /\ creq[c] \notin DOMAIN reqCh'.m
                THEN [removed EXCEPT ![creq[c]] = "CancelRequest"] ELSE removed
  /\ mu' = Unlock(c)
  /\ cpc' = [cpc EXCEPT ![c] = "close"]
  /\ UNCHANGED <<PreventRetryWithBody, retry, closes, issued, hasCancel>>
  /\ UNCHANGED <<creq, rvars, dvars, gvars>>

\* lines 354-358: if ch != nil { close(ch) }, which resumes a RoundTrip
\* blocked in the select with the case <-ch; then
\* t.CancelRoundTripper.CancelRequest(req)
CR_Close(c) ==
  /\ cpc[c] = "close"
  /\ IF cch[c] # NoCh
     THEN /\ closes' = [closes EXCEPT ![cch[c]] = @ + 1]
          /\ IF pc[cch[c]] = "parked" /\ closes[cch[c]] = 0
             THEN Proceed(cch[c], "ch", TRUE)
             ELSE UNCHANGED <<pc, attempt, ret, sel>>
     ELSE UNCHANGED <<closes, pc, attempt, ret, sel>>
  /\ closedInFlight' = IF cch[c] # NoCh /\ pc[cch[c]] = "inflight"
                       THEN [closedInFlight EXCEPT ![cch[c]] = calls[cch[c]].exec]
                       ELSE closedInFlight
  /\ cpc' = [cpc EXCEPT ![c] = "done"]
  /\ UNCHANGED <<PreventRetryWithBody, retry, mu, reqCh, removed, issued, hasCancel>>
  /\ UNCHANGED <<method, origBody, body, preventRetry, res, err, calls, seen,
                 execOut, timer, reqCancel>>
  /\ UNCHANGED <<creq, cch, dvars, passed>>

\* ------------------------------------------------- the delay function alone

DelayArgs == [base : (0 - MaxArg) .. MaxArg, max : (0 - MaxArg) .. MaxArg, index : 0 .. MaxIndex]

\* ExponentialDelay(base, max) is built and applied to an attempt
Delay_Eval ==
  /\ dOut = {}
  /\ \E o \in EvalExponentialDelay(dArgs.base, dArgs.max,
                                   Attempt(dArgs.index, GET, NilResponse, ErrNil)) :
       dOut' = {o}
  /\ UNCHANGED <<tvars, rvars, cvars, gvars, dArgs, pArgs, pOut, PRNG, draw>>

\* ------------------------------------------------------ the policy alone

\* a policy is built by NewTransport's toRetryFn(shouldRetry, delay) and
\* applied to one Attempt
Policy_Eval ==
  /\ pOut = {}
  /\ \E o \in toRetryFn(pArgs.fn, pArgs.delay, pArgs.attempt) : pOut' = {o}
  /\ UNCHANGED <<tvars, rvars, cvars, gvars, dArgs, dOut, pArgs, PRNG, draw>>

\* ------------------------------------------------- the jitter source alone

\* var PRNG = rand.New(rand.NewSource(time.Now().UnixNano())) is one
\* generator for the whole package, used by every delay function built by
\* ExponentialDelay. A *rand.Rand made by rand.New takes no lock: Int63n
\* reads the generator state, computes, and writes the advanced state back.
RandStates == 0 .. RandMod - 1

RandStep(s) == (s + 1) % RandMod

\* PRNG.Int63n, first half, in the RoundTrip goroutine of request r: the
\* generator state is read
Rand_Load(r) ==
  /\ draw[r].pc = "idle"
  /\ draw[r].n <= MaxIndex
  /\ draw' = [draw EXCEPT ![r].pc = "loaded", ![r].x = PRNG.state]
  /\ UNCHANGED <<tvars, rvars, cvars, gvars, dArgs, dOut, pArgs, pOut, PRNG>>

\* PRNG.Int63n, second half: the advanced state is written back
Rand_Store(r) ==
  /\ draw[r].pc = "loaded"
  /\ PRNG' = [state |-> RandStep(draw[r].x)]
  /\ draw' = [draw EXCEPT ![r].pc = "idle", ![r].n = @ + 1]
  /\ UNCHANGED <<tvars, rvars, cvars, gvars, dArgs, dOut, pArgs, pOut>>

\* ---------------------------------------------------------- specifications

Next ==
  \/ \E r \in Reqs : RT_Call(r)
  \/ \E r \in Reqs : RT_Register(r)
  \/ \E r \in Reqs : RT_Send(r)
  \/ \E r \in Reqs : Exec_Return(r)
  \/ \E r \in Reqs : RT_Select(r)
  \/ \E r \in Reqs : Tick(r)
  \/ \E r \in Reqs : ReqCancel(r)
  \/ \E r \in Reqs : RT_DeferLock(r)
  \/ \E r \in Reqs : RT_Unregister(r)
  \/ \E c \in Cancellers, r \in Reqs : CR_Call(c, r)
  \/ \E c \in Cancellers : CR_Lookup(c)
  \/ \E c \in Cancellers : CR_Close(c)

Spec == Init /\ [][Next]_vars

\* Two concurrent requests, the first with or without a body, under one
\* policy (one retry of a 5xx) and one delay.
InitReg ==
  /\ InitTransport({RetryStatus500(1)}, {ConstDelay(1)}, BOOLEAN)
  /\ InitRequests(Reqs, {"r1"}, {GET},
                  [r \in Reqs |-> IF r = "r1" THEN {NilBody, Body(<<1>>)} ELSE {NilBody}])
  /\ InitCancellers
  /\ InitDelayIdle

SpecReg == InitReg /\ [][Next]_vars

\* The delay function on its own, over all small arguments.
InitDelay ==
  /\ InitTransport({AnyPolicy}, {ConstDelay(1)}, {FALSE})
  /\ InitRequests({}, {}, {GET}, [r \in Reqs |-> {NilBody}])
  /\ InitCancellers
  /\ dArgs \in DelayArgs
  /\ dOut = {}
  /\ InitPolicyIdle
  /\ InitRandIdle

NextDelay == Delay_Eval

SpecDelay == InitDelay /\ [][NextDelay]_vars

\* One request under a scheduler that lets every goroutine run: each step
\* of RoundTrip and of a CancelRequest that was called is eventually taken,
\* the wrapped RoundTripper returns from every call, and the time of every
\* delay passes. Calls of CancelRequest and the closing of req.Cancel are
\* up to the caller.
Fairness ==
  /\ \A r \in Reqs :
       /\ WF_vars(RT_Call(r))
       /\ WF_vars(RT_Register(r))
       /\ WF_vars(RT_Send(r))
       /\ WF_vars(Exec_Return(r))
       /\ WF_vars(RT_Select(r))
       /\ WF_vars(Tick(r))
       /\ WF_vars(RT_DeferLock(r))
       /\ WF_vars(RT_Unregister(r))
  /\ \A c \in Cancellers :
       /\ WF_vars(CR_Lookup(c))
       /\ WF_vars(CR_Close(c))

InitLive ==
  /\ InitTransport(Policies, DelayFns, BOOLEAN)
  /\ InitRequests({"r1"}, {"r1"}, {GET},
                  [r \in Reqs |-> IF r = "r1" THEN {NilBody, Body(<<1>>)} ELSE {NilBody}])
  /\ InitCancellers
  /\ InitDelayIdle

SpecLive == InitLive /\ [][Next]_vars /\ Fairness

\* The policy on its own, over small policies, delays and attempts.
InitPolicy ==
  /\ InitTransport({AnyPolicy}, {ConstDelay(1)}, {FALSE})
  /\ InitRequests({}, {}, {GET}, [r \in Reqs |-> {NilBody}])
  /\ InitCancellers
  /\ dArgs = NoArgs
  /\ dOut = {}
  /\ pArgs \in PolicyArgs
  /\ pOut = {}
  /\ InitRandIdle

NextPolicy == Policy_Eval

SpecPolicy == InitPolicy /\ [][NextPolicy]_vars

\* The retry loops of two RoundTrip calls evaluating an ExponentialDelay
\* function, seen from the generator: any seed, any interleaving.
InitRand ==
  /\ InitTransport({AnyPolicy}, {ExponentialDelay(1, MaxDelay)}, {FALSE})
  /\ InitRequests({}, {}, {GET}, [r \in Reqs |-> {NilBody}])
  /\ InitCancellers
  /\ dArgs = NoArgs
  /\ dOut = {}
  /\ InitPolicyIdle
  /\ PRNG \in [state : RandStates]
  /\ draw = [r \in Reqs |-> [pc |-> "idle", x |-> 0, n |-> 0]]

NextRand ==
  \/ \E r \in Reqs : Rand_Load(r)
  \/ \E r \in Reqs : Rand_Store(r)

SpecRand == InitRand /\ [][NextRand]_vars

\* ------------------------------------------------------------------ claims

Returned(r) == pc[r] \in {"defer", "unregister", "done"} /\ ret[r].returned

\* C1: when the registered channel is closed by CancelRequest, or req.Cancel
\* is closed, while RoundTrip is blocked in the wait between two attempts,
\* RoundTrip returns (nil, cancellation error) and the executor is not
\* invoked again.
C1_CancelDuringWait ==
  \A r \in Reqs :
    (sel[r].parked /\ sel[r].case \in {"ch", "reqCancel"})
      => /\ Returned(r)
         /\ ret[r] = Ret(NilResponse, ErrCanceled)
         /\ calls[r].exec = sel[r].at
         /\ calls[r].execRet = sel[r].at

\* CancelRequest closed the channel during the wait after attempt 1 (the
\* second invocation); RoundTrip returned the cancellation.
C1_Witness ==
  /\ sel["r1"].parked /\ sel["r1"].case = "ch" /\ sel["r1"].at = 2
  /\ pc["r1"] = "done" /\ ret["r1"].err = ErrCanceled /\ calls["r1"].exec = 2

\* C2: once RoundTrip(req) has returned, on any return path, t.reqCh holds
\* no entry for req; when every issued RoundTrip has returned it is empty.
C2_RegistryReleased ==
  /\ \A r \in Reqs : pc[r] = "done" => r \notin DOMAIN reqCh.m
  /\ (\A r \in issued : pc[r] = "done") => DOMAIN reqCh.m = {}

\* Both calls returned, the first through a body-buffering failure and the
\* second cancelled in its wait by a CancelRequest.
C2_Witness ==
  /\ \A r \in Reqs : pc[r] = "done" /\ ret[r].returned
  /\ ret["r1"].err = ErrRead
  /\ ret["r2"].err = ErrCanceled /\ removed["r2"] = "CancelRequest"
  /\ reqCh.m = <<>>

Holders(r) == {c \in Cancellers : cch[c] = r}

\* C3: the channel registered for req is closed at most once; if RoundTrip's
\* own removal took the entry the channel is never closed, and if a
\* CancelRequest took it, only that call closes it.
C3_CloseAtMostOnce ==
  \A r \in Reqs :
    /\ closes[r] <= 1
    /\ Cardinality(Holders(r)) <= 1
    /\ closes[r] = 1 <=> \E c \in Holders(r) : cpc[c] = "done"
    /\ removed[r] = "RoundTrip" => closes[r] = 0 /\ Holders(r) = {}
    /\ removed[r] = "CancelRequest" <=> Holders(r) # {}

\* Two CancelRequest calls for the same request finished; one closed the
\* channel, the other found no entry.
C3_Witness ==
  /\ \A c \in Cancellers : cpc[c] = "done" /\ creq[c] = "r1"
  /\ closes["r1"] = 1
  /\ Cardinality(Holders("r1")) = 1
  /\ pc["r1"] = "done"

\* C4: with a body and PreventRetryWithBody false, the executor is given, on
\* every attempt, a body that reads the complete original byte sequence.
C4_SameBodyEveryAttempt ==
  \A r \in Reqs :
    (calls[r].exec > 0 /\ ~origBody[r].isNil /\ ~PreventRetryWithBody)
      => seen[r] = origBody[r].bytes

\* The third invocation (after two retried attempts) of a request with a
\* two-byte body.
C4_Witness ==
  /\ pc["r1"] = "inflight" /\ calls["r1"].exec = 3
  /\ origBody["r1"] = Body(<<1, 2>>) /\ ~PreventRetryWithBody
  /\ seen["r1"] = <<1, 2>>

\* C5: with PreventRetryWithBody and a body, the executor is invoked exactly
\* once and its response and error are returned; shouldRetry and delay are
\* not consulted and the body is not buffered.
C5_PreventRetryOnce ==
  \A r \in Reqs :
    (PreventRetryWithBody /\ ~origBody[r].isNil)
      => /\ calls[r].exec <= 1
         /\ calls[r].policy = 0 /\ calls[r].delay = 0
         /\ ~body[r].hasBr
         /\ pc[r] \notin {"select", "parked"}
         /\ Returned(r) => /\ calls[r].exec = 1 /\ calls[r].execRet = 1
                           /\ ret[r] = Ret(execOut[r].res, execOut[r].err)

\* A 503 to a GET under the scenario policy, which would retry it, is
\* returned after one invocation.
C5_Witness ==
  /\ PreventRetryWithBody /\ ~origBody["r1"].isNil
  /\ retry.shouldRetry = ScenarioPolicy /\ method["r1"] = GET
  /\ pc["r1"] = "done" /\ ret["r1"].res = Response(503) /\ calls["r1"].exec = 1
  /\ ShouldRetry(ScenarioPolicy, Attempt(0, GET, ret["r1"].res, ret["r1"].err))

\* C6: when reading the original body fails, RoundTrip returns (nil, the read
\* error) with the executor never invoked, shouldRetry never evaluated and
\* the original body closed.
C6_BufferingFailure ==
  \A r \in Reqs :
    (/\ ~origBody[r].isNil /\ ~PreventRetryWithBody
     /\ pc[r] \notin {"idle", "register"}
     /\ body[r].kind = "orig")
      => /\ Returned(r)
         /\ ret[r] = Ret(NilResponse, ErrRead)
         /\ calls[r].exec = 0
         /\ calls[r].policy = 0 /\ calls[r].delay = 0
         /\ body[r].origClosed

\* The read of a two-byte body failed after one byte.
C6_Witness ==
  /\ pc["r1"] = "done" /\ ret["r1"].err = ErrRead
  /\ origBody["r1"] = Body(<<1, 2>>) /\ body["r1"].origOff = 1

\* RoundTrip returned what the loop's "no retry" branch returns (neither a
\* cancellation nor a body-buffering failure nor a prevented retry).
NoRetryReturn(r) ==
  /\ Returned(r)
  /\ ret[r].err \notin {ErrCanceled, ErrRead}
  /\ ~(PreventRetryWithBody /\ ~origBody[r].isNil)

\* C7: when the policy says "no retry", RoundTrip returns that attempt's
\* response and error unchanged, the response body neither read nor closed
\* by the transport; a response is drained and closed only when its attempt
\* is retried.
C7_NoRetryUntouched ==
  \A r \in Reqs :
    /\ NoRetryReturn(r)
         => /\ ret[r] = Ret(execOut[r].res, execOut[r].err)
            /\ ~ret[r].res.bodyRead /\ ~ret[r].res.bodyClosed
            /\ pc[r] # "done"
                 => ~ShouldRetry(retry.shouldRetry,
                                 Attempt(attempt[r], method[r], ret[r].res, ret[r].err))
    /\ (res[r].bodyRead \/ res[r].bodyClosed)
         => /\ res[r].bodyRead /\ res[r].bodyClosed
            /\ res[r] = DrainClose(execOut[r].res)
            /\ calls[r].delay > 0
            /\ ShouldRetry(retry.shouldRetry,
                           Attempt(IF pc[r] \in {"send", "inflight"}
                                   THEN attempt[r] - 1 ELSE attempt[r],
                                   method[r], execOut[r].res, execOut[r].err))

\* A 200 with an untouched body is returned after an earlier 503 was
\* retried.
C7_Witness ==
  /\ pc["r1"] = "unregister" /\ NoRetryReturn("r1")
  /\ calls["r1"].exec = 2
  /\ ret["r1"].res = Response(200)

\* C8: attempt k+1 is issued only after attempt k returned, its response
\* body (if any) was drained and closed, and the delay computed for it has
\* elapsed; the attempts of one request never overlap.
C8_AttemptsOrdered ==
  \A r \in Reqs :
    /\ calls[r].exec - calls[r].execRet \in {0, 1}
    /\ calls[r].exec - calls[r].execRet = 1 <=> pc[r] = "inflight"
    /\ (pc[r] \in {"send", "inflight"} /\ attempt[r] > 0)
         => /\ calls[r].execRet = attempt[r]
            /\ res[r] = DrainClose(execOut[r].res)
            /\ execOut[r].res.isNil \/ (res[r].bodyRead /\ res[r].bodyClosed)
            /\ sel[r].case = "timer"
            /\ timer[r].rem = 0
    /\ pc[r] = "inflight" => calls[r].exec = attempt[r] + 1

\* The third attempt is in flight after a one-tick delay elapsed while
\* RoundTrip was blocked, the second attempt's 503 drained and closed.
C8_Witness ==
  /\ pc["r1"] = "inflight" /\ attempt["r1"] = 2
  /\ timer["r1"].delay = 1 /\ sel["r1"].parked
  /\ res["r1"].StatusCode = 503 /\ res["r1"].bodyClosed

Scenario(r) ==
  /\ retry.shouldRetry = RetryAll(<<RetryStatus500(3), RetryHTTPMethods(3, <<GET>>)>>)
  /\ method[r] = GET
  /\ ~(PreventRetryWithBody /\ ~origBody[r].isNil)
  /\ r \in issued

\* C9: under RetryAll(RetryStatus500(3), RetryHTTPMethods(3, "GET")) and a
\* GET, a 503 at attempt 0 is retried, and a 200 at attempt 1 stops the
\* loop: it is returned after exactly 2 invocations.  In general a returned
\* result is the result of the first attempt the policy did not retry.
C9_ScenarioStopsAt200 ==
  \A r \in Reqs :
    /\ (Scenario(r) /\ calls[r].execRet = 1 /\ execOut[r].res = Response(503))
         => /\ calls[r].delay = 1
            /\ pc[r] \in {"select", "parked", "send", "inflight"} \/ ret[r].err = ErrCanceled
    /\ (Scenario(r) /\ calls[r].execRet = 2 /\ execOut[r].res = Response(200))
         => /\ Returned(r)
            /\ ret[r] = Ret(Response(200), ErrNil)
            /\ calls[r].exec = 2
            /\ calls[r].policy = 2 /\ calls[r].delay = 1
    /\ NoRetryReturn(r)
         => /\ ret[r] = Ret(execOut[r].res, execOut[r].err)
            /\ calls[r].exec = calls[r].execRet
            /\ calls[r].policy = calls[r].exec
            /\ calls[r].delay = calls[r].exec - 1

C9_Witness ==
  /\ Scenario("r1") /\ pc["r1"] = "done"
  /\ calls["r1"].exec = 2 /\ calls["r1"].execRet = 2
  /\ ret["r1"] = Ret(Response(200), ErrNil)

\* C10: ExponentialDelay(base, max) returns 0 for every attempt index at
\* which min(max, base * 2^index) is 0 or negative, and does not panic.
C10_ZeroOnDegenerate ==
  (dOut # {} /\ Min(dArgs.max, dArgs.base * Pow2(dArgs.index)) <= 0)
    => dOut = {Value(0)}

\* C11: the accesses of concurrent retry loops to the state of the shared
\* jitter generator are mutually exclusive: no two goroutines are inside
\* PRNG.Int63n, between its read and its write of the state, at once.
C11_GeneratorExclusive ==
  \A r1 \in Reqs, r2 \in Reqs :
    draw[r1].pc = "loaded" /\ draw[r2].pc = "loaded" => r1 = r2

\* Case-insensitive equality of two methods, by lower-casing both.
LowerChar(c) ==
  IF \E i \in DOMAIN Upper : Upper[i] = c
  THEN Lower[CHOOSE i \in DOMAIN Upper : Upper[i] = c]
  ELSE c

EqualFold(a, b) ==
  /\ Len(a) = Len(b)
  /\ \A i \in 1 .. Len(a) : LowerChar(a[i]) = LowerChar(b[i])

\* C12: RetryHTTPMethods(n, methods...) is true for an attempt iff
\* attempt.Index < n and the request's method equals one of the methods
\* given, both compared case-insensitively; it is false for Index >= n
\* whatever the method, and false with an empty method list.
C12_MethodsCaseInsensitive ==
  pArgs.fn.kind = "meth" =>
    \A o \in pOut :
      /\ o.retry <=>
           /\ pArgs.attempt.Index < pArgs.fn.n
           /\ \E i \in DOMAIN pArgs.methods :
                EqualFold(pArgs.attempt.Method, pArgs.methods[i])
      /\ pArgs.attempt.Index >= pArgs.fn.n => ~o.retry
      /\ pArgs.methods = <<>> => ~o.retry

\* a method matched although no given method is spelled like the request's
C12_Witness ==
  /\ pArgs.fn.kind = "meth"
  /\ \E o \in pOut : o.retry
  /\ \A i \in DOMAIN pArgs.methods : pArgs.attempt.Method # pArgs.methods[i]

\* What each ShouldRetryFn of the package is documented to answer.
Documented(f, a) ==
  CASE f.kind = "temp" -> a.Index < f.n /\ a.Error = "temp"
    [] f.kind = "s500" ->
         /\ a.Index < f.n
         /\ ~a.Response.isNil
         /\ a.Response.StatusCode \in 500 .. 599
    [] f.kind = "meth" ->
         a.Index < f.n /\ \E i \in DOMAIN f.methods : EqualFold(a.Method, f.methods[i])

\* C13: RetryAll(fns...) is true for an attempt iff every function given is
\* true for that attempt (of the four combinations of two functions, only
\* the one where both are true); with no function it is true.
C13_RetryAllIsAnd ==
  pArgs.fn.kind = "all" =>
    \A o \in pOut :
      /\ o.retry <=>
           \A i \in DOMAIN pArgs.fns : Documented(pArgs.fns[i], pArgs.attempt)
      /\ pArgs.fns = <<>> => o.retry

\* the first function is true, the second false, and RetryAll is false
C13_Witness ==
  /\ pArgs.fn.kind = "all"
  /\ Len(pArgs.fns) = 2
  /\ Documented(pArgs.fns[1], pArgs.attempt)
  /\ ~Documented(pArgs.fns[2], pArgs.attempt)
  /\ \E o \in pOut : ~o.retry

\* C14: RetryStatus500(maxRetries) is true for an attempt iff
\* attempt.Index < maxRetries, the response is not nil and its status s has
\* 500 <= s < 600; it is false for a nil response whatever the error.
C14_Status5xx ==
  pArgs.fn.kind = "s500" =>
    \A o \in pOut :
      /\ o.retry <=>
           /\ pArgs.attempt.Index < pArgs.fn.n
           /\ ~pArgs.attempt.Response.isNil
           /\ 500 <= pArgs.attempt.Response.StatusCode
           /\ pArgs.attempt.Response.StatusCode < 600
      /\ pArgs.attempt.Response.isNil => ~o.retry

\* the top of the range, 599, is retried
C14_Witness ==
  /\ pArgs.fn.kind = "s500"
  /\ pArgs.attempt.Response.StatusCode = 599
  /\ \E o \in pOut : o.retry

\* C15: RetryTemporaryErr(maxRetries) is true for an attempt iff
\* attempt.Index < maxRetries and the error is not nil, has a Temporary
\* method, and Temporary() reports true; it is false for a nil error and for
\* an error without a Temporary method.
C15_TemporaryErr ==
  pArgs.fn.kind = "temp" =>
    \A o \in pOut :
      /\ o.retry <=>
           /\ pArgs.attempt.Index < pArgs.fn.n
           /\ pArgs.attempt.Error # ErrNil
           /\ pArgs.attempt.Error \in {"temp", "tempFalse"}
           /\ pArgs.attempt.Error = "temp"
      /\ pArgs.attempt.Error \in {ErrNil, "plain"} => ~o.retry

\* an error whose Temporary() reports false was evaluated below the limit
\* and is not retried
C15_Witness ==
  /\ pArgs.fn.kind = "temp"
  /\ pArgs.attempt.Index < pArgs.fn.n
  /\ pArgs.attempt.Error = "tempFalse"
  /\ \E o \in pOut : ~o.retry

\* C16: when CancelRequest closes the channel of a request while its k-th
\* attempt is in flight in the wrapped executor, that attempt still returns
\* to the loop and its response and error are passed to the retry policy;
\* if the loop then enters the wait it returns the cancellation error, and
\* no attempt after the k-th is issued.
C16_CancelInFlight ==
  \A r \in Reqs :
    closedInFlight[r] > 0 =>
      /\ pc[r] # "inflight" =>
           /\ calls[r].execRet >= closedInFlight[r]
           /\ ~PreventRetry(origBody[r], PreventRetryWithBody) =>
                /\ Len(passed[r]) >= closedInFlight[r]
                /\ calls[r].execRet = closedInFlight[r] =>
                     /\ passed[r][closedInFlight[r]].Response = execOut[r].res
                     /\ passed[r][closedInFlight[r]].Error = execOut[r].err
      /\ sel[r].at = closedInFlight[r] => sel[r].case \in {"ch", "reqCancel"}
      /\ calls[r].exec = closedInFlight[r]

\* C17: t.mu is held only inside the register, cancel-lookup/remove and
\* unregister critical sections: no RoundTrip call holds it while its
\* attempt is in flight or while it is in the wait, and CancelRequest closes
\* the channel and calls the wrapped CancelRequest after releasing it; so
\* whoever holds t.mu is inside one of these sections.
C17_MutexOnlyInSections ==
  /\ \A r \in Reqs :
       /\ pc[r] \in {"send", "inflight", "select", "parked", "defer", "done"} => mu # r
       /\ mu = r => pc[r] \in {"register", "unregister"}
  /\ \A c \in Cancellers :
       /\ cpc[c] \in {"close", "done"} => mu # c
       /\ mu = c => cpc[c] = "locked"
  /\ mu \in {Free} \cup Reqs \cup Cancellers

\* while r1 is in the wait and r2's attempt is in flight, a CancelRequest
\* is in its critical section
C17_Witness ==
  /\ pc["r1"] = "parked"
  /\ pc["r2"] = "inflight"
  /\ \E c \in Cancellers : mu = c /\ cpc[c] = "locked"

\* C18: the policy built by toRetryFn(shouldRetry, delay) asks shouldRetry
\* first; when it is false the result is (false, 0) and delay is not
\* invoked; when it is true the result is (true, delay(attempt)) and delay
\* is invoked exactly once.
C18_DelayOnlyOnRetry ==
  \A o \in pOut :
    IF ShouldRetry(pArgs.fn, pArgs.attempt)
    THEN /\ o.retry
         /\ o.out \in Delay(pArgs.delay, pArgs.attempt)
         /\ o.delayCalls = 1
    ELSE /\ ~o.retry
         /\ o.out = Value(0)
         /\ o.delayCalls = 0

\* a policy with the jittered delay answered no without a call of delay
C18_Witness ==
  /\ pArgs.delay.kind = "exp"
  /\ \E o \in pOut : ~o.retry /\ o.delayCalls = 0

\* C19: within one RoundTrip call the Attempt passed to the retry policy
\* after the k-th invocation of the wrapped executor has Index = k - 1 (0
\* first, one more per retry, none skipped, repeated or decreased) and
\* carries that invocation's request, response and error.
C19_IndexFollowsInvocations ==
  \A r \in Reqs :
    /\ Len(passed[r]) = calls[r].policy
    /\ IF PreventRetry(origBody[r], PreventRetryWithBody)
       THEN passed[r] = <<>>
       ELSE Len(passed[r]) = calls[r].execRet
    /\ \A k \in 1 .. Len(passed[r]) :
         /\ passed[r][k].Index = k - 1
         /\ passed[r][k].Method = method[r]
    /\ Len(passed[r]) > 0 =>
         /\ passed[r][Len(passed[r])].Response = execOut[r].res
         /\ passed[r][Len(passed[r])].Error = execOut[r].err

\* the policy was asked about four attempts of one call
C19_Witness ==
  /\ Len(passed["r1"]) = 4
  /\ calls["r1"].exec = 4
  /\ passed["r1"][4].Index = 3

\* The least n such that the decision function is false for every attempt
\* with Index >= n.
RECURSIVE Limit(_)
Limit(fn) ==
  CASE fn.kind \in {"temp", "s500", "meth"} -> fn.n
    [] fn.kind = "all" ->
         CHOOSE n \in {Limit(fn.fns[i]) : i \in DOMAIN fn.fns} :
           \A j \in DOMAIN fn.fns : n <= Limit(fn.fns[j])
    [] fn.kind = "any" ->
         CHOOSE n \in {Limit(fn.fns[i]) : i \in DOMAIN fn.fns} :
           \A j \in DOMAIN fn.fns : n >= Limit(fn.fns[j])

\* C20: with a decision function that is false from Index n on, an executor
\* that returns from every call and finite delays, each RoundTrip call
\* invokes the executor at most n + 1 times and eventually returns, for any
\* outcomes of the attempts and any interleaving with CancelRequest.
C20_BoundedAndReturns ==
  /\ [](\A r \in Reqs : calls[r].exec <= Limit(retry.shouldRetry) + 1)
  /\ \A r \in Reqs : r \in issued => <>(pc[r] = "done" /\ ret[r].returned)

\* the call returned after n + 1 invocations of the executor
C20_Witness ==
  /\ pc["r1"] = "done"
  /\ ret["r1"].returned
  /\ calls["r1"].exec = Limit(retry.shouldRetry) + 1
  /\ \E c \in Cancellers : cpc[c] = "done"

====
